---- MODULE Spec2Model ----
(***************************************************************************)
(* Model of src/main.py: the Data class, an attribute-style wrapper over a *)
(* nested dict.  Python objects live on a heap so that aliasing between    *)
(* the caller's mappings and an instance's store, and the identity of the  *)
(* wrappers that __getattr__ materialises, are part of the state.          *)
(***************************************************************************)
EXTENDS Integers, Sequences, FiniteSets, TLC

VARIABLES heap, insts, built, last, nops

vars == <<heap, insts, built, last, nops>>

(***************************************************************************)
(* Bounds of the exploration.                                              *)
(***************************************************************************)
MaxOps == 3
MaxInst == 2

(***************************************************************************)
(* Python values.  A value is a tagged record; a reference carries the     *)
(* heap address of a dict or of a Data instance.                           *)
(***************************************************************************)
INT(n) == [t |-> "int", v |-> n]
FLOAT10(n) == [t |-> "float", v |-> n]
STR(s) == [t |-> "str", s |-> s]
REF(a) == [t |-> "ref", v |-> a]
METHOD(f) == [t |-> "method", f |-> f]
None == [t |-> "none", v |-> 0]
EXC(e) == [t |-> "exc", e |-> e]

DefaultHeight == 100
DefaultSize == 10

(***************************************************************************)
(* Heap objects: a dict keeps its entries in insertion order; a Data       *)
(* instance has the single instance attribute _data.                       *)
(***************************************************************************)
NewDict(items) == [kind |-> "dict", items |-> items, data |-> None]
NewData(d) == [kind |-> "Data", items |-> <<>>, data |-> d]
P(k, v) == [k |-> k, v |-> v]

IsDict(h, x) == x.t = "ref" /\ h[x.v].kind = "dict"
IsData(h, x) == x.t = "ref" /\ h[x.v].kind = "Data"

\* dict primitives on an insertion-ordered entry list
Keys(items) == {items[i].k : i \in DOMAIN items}
HasKey(items, k) == \E i \in DOMAIN items : items[i].k = k
GetItem(items, k) == items[CHOOSE i \in DOMAIN items : items[i].k = k].v
SetItem(items, k, v) ==
  IF HasKey(items, k)
  THEN [i \in DOMAIN items |-> IF items[i].k = k THEN P(k, v) ELSE items[i]]
  ELSE Append(items, P(k, v))
setdefault_Overwrites(items, k, v) == SetItem(items, k, v)
setdefault(items, k, v) == IF HasKey(items, k) THEN items ELSE Append(items, P(k, v))

(***************************************************************************)
(* Data._set_default_values (lines 157-179).  Returns the heap it leaves   *)
(* behind and the exception it raised ("" when it returned normally).      *)
(***************************************************************************)
_set_default_values(h, self) ==
  LET store == h[self].data.v
      h1 == IF ~HasKey(h[store].items, "metadata")
            THEN Append([h EXCEPT ![store].items = SetItem(@, "metadata", REF(Len(h) + 1))],
                        NewDict(<<>>))
            ELSE h
      metadata == GetItem(h1[store].items, "metadata")
  IN IF ~IsDict(h1, metadata)
     THEN [h |-> h1, exc |-> "TypeError"]
     ELSE
       LET md == metadata.v
           h2 == IF ~HasKey(h1[md].items, "system")
                 THEN Append([h1 EXCEPT ![md].items = SetItem(@, "system", REF(Len(h1) + 1))],
                             NewDict(<<>>))
                 ELSE h1
           system == GetItem(h2[md].items, "system")
       IN IF ~IsDict(h2, system)
          THEN [h |-> h2, exc |-> IF IsData(h2, system) THEN "TypeError" ELSE "AttributeError"]
          ELSE
            LET sy == system.v
                h3 == [h2 EXCEPT ![sy].items = setdefault(@, "height", INT(DefaultHeight))]
                h4 == [h3 EXCEPT ![sy].items = setdefault(@, "size", INT(DefaultSize))]
            IN [h |-> h4, exc |-> ""]

(***************************************************************************)
(* Data.__init__ (lines 29-46), called with unpacked entries: the keyword  *)
(* arguments arrive in a fresh dict (a shallow copy of the entries), which *)
(* becomes the store.                                                      *)
(***************************************************************************)
__init__(h, entries) ==
  LET kwargs == Len(h) + 1
      self == Len(h) + 2
      h1 == h \o <<NewDict(entries), NewData(REF(kwargs))>>
      r == _set_default_values(h1, self)
  IN [h |-> r.h, self |-> self, exc |-> r.exc]

\* Data.from_dict (lines 48-56)
from_dict(h, data_dict) == __init__(h, h[data_dict].items)

(***************************************************************************)
(* Data.flatten_dict (lines 141-155).  flatten_items is the list `items`   *)
(* the loop builds; dict is the builtin that turns a list of pairs into a  *)
(* dict (a key keeps the position of its first pair and the value of its   *)
(* last).                                                                  *)
(***************************************************************************)
RECURSIVE dict(_)
dict(pairs) ==
  IF pairs = <<>> THEN <<>>
  ELSE LET n == Len(pairs)
       IN SetItem(dict(SubSeq(pairs, 1, n - 1)), pairs[n].k, pairs[n].v)

RECURSIVE flatten_dict(_, _), flatten_items(_, _, _), flatten_items_SelfFirst(_, _, _)
flatten_items_SelfFirst(h, data, i) ==
  IF i > Len(data) THEN <<>>
  ELSE <<data[i]>>
       \o (IF IsDict(h, data[i].v) THEN flatten_dict(h, data[i].v.v) ELSE <<>>)
       \o flatten_items_SelfFirst(h, data, i + 1)

flatten_items(h, data, i) ==
  IF i > Len(data) THEN <<>>
  ELSE (IF IsDict(h, data[i].v) THEN flatten_dict(h, data[i].v.v) ELSE <<>>)
       \o <<data[i]>> \o flatten_items(h, data, i + 1)

flatten_dict(h, data) == dict(flatten_items(h, h[data].items, 1))

\* dict.get(key, default), line 125
dict_get(items, k, default) == IF HasKey(items, k) THEN GetItem(items, k) ELSE default

(***************************************************************************)
(* Attribute names.  ClassAttrs are the attributes the class body defines, *)
(* which normal lookup finds before __getattr__ is consulted; startswith_  *)
(* is attr.startswith('_') on the names in use.                            *)
(***************************************************************************)
ClassAttrs == {"from_dict", "to_dict", "flatten_dict", "_convert_dataclasses_to_dict",
               "_set_default_values"}
startswith_(attr) == attr \in {"_data", "_x", "_convert_dataclasses_to_dict",
                               "_set_default_values"}

(***************************************************************************)
(* Data.__getattr__ (lines 116-125).  Returns the heap after the read, the *)
(* value returned and the exception raised.                                *)
(***************************************************************************)
__getattr__(h, self, attr) ==
  LET d == h[self].data
  IN IF ~IsDict(h, d)
     THEN [h |-> h, ret |-> None, exc |-> "TypeError"]
     ELSE IF HasKey(h[d.v].items, attr)
     THEN LET value == GetItem(h[d.v].items, attr)
          IN IF IsDict(h, value)
             THEN LET r == __init__(h, h[value.v].items)
                  IN IF r.exc # ""
                     THEN [h |-> r.h, ret |-> None, exc |-> r.exc]
                     ELSE [h |-> [r.h EXCEPT ![d.v].items = SetItem(@, attr, REF(r.self))],
                           ret |-> REF(r.self), exc |-> ""]
             ELSE [h |-> h, ret |-> value, exc |-> ""]
     ELSE IF startswith_(attr)
     THEN [h |-> h, ret |-> None, exc |-> "AttributeError"]
     ELSE [h |-> h, ret |-> dict_get(flatten_dict(h, d.v), attr, None), exc |-> ""]

(***************************************************************************)
(* The attribute read inst.attr: the instance attribute _data and the      *)
(* class attributes are found by normal lookup; __getattr__ runs only when *)
(* normal lookup fails (docstring, lines 92-93).                           *)
(***************************************************************************)
getattr(h, self, attr) ==
  IF attr = "_data" THEN [h |-> h, ret |-> h[self].data, exc |-> ""]
  ELSE IF attr \in ClassAttrs THEN [h |-> h, ret |-> METHOD(attr), exc |-> ""]
  ELSE __getattr__(h, self, attr)

\* Data.__setattr__ (lines 127-139)
__setattr__(h, self, attr, value) ==
  IF attr = "_data"
  THEN [h |-> [h EXCEPT ![self].data = value], exc |-> ""]
  ELSE LET d == h[self].data
       IN IF ~IsDict(h, d)
          THEN [h |-> h, exc |-> "TypeError"]
          ELSE [h |-> [h EXCEPT ![d.v].items = SetItem(@, attr, value)], exc |-> ""]

(***************************************************************************)
(* Data.to_dict and Data._convert_dataclasses_to_dict (lines 58-85).  The  *)
(* result is a plain value: [t |-> "map", m |-> function from key to plain *)
(* value], or EXC(e) when the conversion raises.                           *)
(***************************************************************************)
RECURSIVE _convert_dataclasses_to_dict(_, _), to_dict(_, _)
_convert_dataclasses_to_dict(h, data) ==
  LET items == h[data].items
      conv(value) == IF IsData(h, value) THEN to_dict(h, value.v)
                     ELSE IF IsDict(h, value) THEN _convert_dataclasses_to_dict(h, value.v)
                     ELSE value
      bad == {i \in DOMAIN items : conv(items[i].v).t = "exc"}
  IN IF bad # {}
     THEN conv(items[CHOOSE i \in bad : \A j \in bad : i <= j].v)
     ELSE [t |-> "map", m |-> [k \in Keys(items) |-> conv(GetItem(items, k))]]

to_dict(h, self) ==
  IF IsDict(h, h[self].data)
  THEN _convert_dataclasses_to_dict(h, h[self].data.v)
  ELSE EXC("AttributeError")

(***************************************************************************)
(* The caller's source mappings.  Address 1 is the mapping handed to       *)
(* from_dict.                                                              *)
(***************************************************************************)
Example ==
  << NewDict(<<P("id", STR("1")), P("name", STR("first")), P("metadata", REF(2))>>),
     NewDict(<<P("system", REF(3)), P("user", REF(4))>>),
     NewDict(<<P("size", FLOAT10(107)), P("height", INT(11))>>),
     NewDict(<<P("batch", INT(1121))>>) >>

\* the heap cells of an instance built by Data(), placed after `base` cells
BlankInstance(base) ==
  << NewData(REF(base + 2)),
     NewDict(<<P("metadata", REF(base + 3))>>),
     NewDict(<<P("system", REF(base + 4))>>),
     NewDict(<<P("height", INT(DefaultHeight)), P("size", INT(DefaultSize))>>) >>

InputHeaps ==
  { Example,
    << NewDict(<<P("name", STR("my"))>>) >>,
    << NewDict(<<P("metadata", REF(2))>>), NewDict(<<>>) >>,
    << NewDict(<<P("metadata", REF(2))>>), NewDict(<<P("system", REF(3))>>),
       NewDict(<<P("height", INT(0))>>) >>,
    << NewDict(<<P("metadata", INT(5))>>) >>,
    << NewDict(<<P("metadata", REF(2))>>), NewDict(<<P("system", None)>>) >>,
    << NewDict(<<P("a", REF(2))>>), NewDict(<<P("b", REF(3))>>),
       NewDict(<<P("b", INT(1))>>) >>,
    << NewDict(<<P("a", REF(2)), P("b", REF(4))>>), NewDict(<<P("c", REF(3))>>),
       NewDict(<<P("batch", INT(2))>>), NewDict(<<P("batch", INT(1))>>) >>,
    << NewDict(<<P("height", INT(3)), P("a", REF(2))>>),
       NewDict(<<P("metadata", INT(5))>>) >>,
    << NewDict(<<P("child", REF(2))>>) >> \o BlankInstance(1),
    << NewDict(<<P("metadata", REF(2))>>) >> \o BlankInstance(1) }

NoOp == [op |-> "init", self |-> 0, attr |-> "", val |-> None, ret |-> None,
         exc |-> "", pre |-> <<>>]

ReadNames == {"height", "size", "batch", "metadata", "system", "a", "b", "color",
              "to_dict", "_data", "_x"}
WriteNames == {"height", "to_dict", "_data", "_x"}
WriteVals == {INT(5), None}
DictLiteral == [t |-> "literal", v |-> 0]
LiteralItems == <<P("batch", INT(7))>>

Init ==
  /\ heap \in InputHeaps
  /\ insts = {}
  /\ built = 0
  /\ last = NoOp
  /\ nops = 0

\* the caller runs Data.from_dict(m) on its source mapping
Construct ==
  /\ nops < MaxOps
  /\ built < MaxInst
  /\ LET r == from_dict(heap, 1)
     IN /\ heap' = r.h
        /\ insts' = IF r.exc = "" THEN insts \cup {r.self} ELSE insts
        /\ last' = [op |-> "construct", self |-> r.self, attr |-> "", val |-> REF(1),
                    ret |-> IF r.exc = "" THEN REF(r.self) ELSE None,
                    exc |-> r.exc, pre |-> heap]
  /\ built' = built + 1
  /\ nops' = nops + 1

\* the caller reads inst.attr on an instance or wrapper it holds
GetAttr ==
  /\ nops < MaxOps
  /\ \E self \in insts, attr \in ReadNames :
       LET r == getattr(heap, self, attr)
       IN /\ heap' = r.h
          /\ insts' = IF r.exc = "" /\ IsData(r.h, r.ret) THEN insts \cup {r.ret.v} ELSE insts
          /\ last' = [op |-> "get", self |-> self, attr |-> attr, val |-> None,
                      ret |-> r.ret, exc |-> r.exc, pre |-> heap]
  /\ nops' = nops + 1
  /\ UNCHANGED built

\* the caller assigns inst.attr = value; value is a scalar or a dict literal,
\* which is a fresh dict on the heap when __setattr__ runs
SetAttr ==
  /\ nops < MaxOps
  /\ \E self \in insts, attr \in WriteNames, w \in WriteVals \cup {DictLiteral} :
       LET h0 == IF w = DictLiteral THEN Append(heap, NewDict(LiteralItems)) ELSE heap
           value == IF w = DictLiteral THEN REF(Len(heap) + 1) ELSE w
           r == __setattr__(h0, self, attr, value)
       IN /\ heap' = r.h
          /\ last' = [op |-> "set", self |-> self, attr |-> attr, val |-> value,
                      ret |-> None, exc |-> r.exc, pre |-> h0]
  /\ nops' = nops + 1
  /\ UNCHANGED <<insts, built>>

\* the caller runs inst.to_dict()
ToDict ==
  /\ nops < MaxOps
  /\ \E self \in insts :
       LET r == to_dict(heap, self)
       IN last' = [op |-> "to_dict", self |-> self, attr |-> "", val |-> None,
                   ret |-> IF r.t = "exc" THEN None ELSE r,
                   exc |-> IF r.t = "exc" THEN r.e ELSE "", pre |-> heap]
  /\ nops' = nops + 1
  /\ UNCHANGED <<heap, insts, built>>

Next == Construct \/ GetAttr \/ SetAttr \/ ToDict

Spec == Init /\ [][Next]_vars

(***************************************************************************)
(* Vocabulary of the properties.                                           *)
(***************************************************************************)
MAP(f) == [t |-> "map", m |-> f]
EmptyMap == [k \in {} |-> None]
WithKey(f, k, v) == [x \in DOMAIN f \cup {k} |-> IF x = k THEN v ELSE f[x]]
WithKeyIfAbsent(f, k, v) == IF k \in DOMAIN f THEN f ELSE WithKey(f, k, v)

\* the entries of the dict or of the store behind a reference
EntriesOf(h, x) ==
  IF IsDict(h, x) THEN h[x.v].items
  ELSE IF IsDict(h, h[x.v].data) THEN h[h[x.v].data.v].items
  ELSE <<>>

\* the value a reference stands for, as a nested mapping, wrappers seen
\* through to their stores
RECURSIVE Snapshot(_, _)
Snapshot(h, x) ==
  IF x.t # "ref" THEN x
  ELSE MAP([k \in Keys(EntriesOf(h, x)) |-> Snapshot(h, GetItem(EntriesOf(h, x), k))])

\* the Data instances reachable from a dict through plain dicts
RECURSIVE RecordsIn(_, _)
RecordsIn(h, a) ==
  UNION { IF IsData(h, h[a].items[i].v) THEN {h[a].items[i].v.v}
          ELSE IF IsDict(h, h[a].items[i].v) THEN RecordsIn(h, h[a].items[i].v.v)
          ELSE {} : i \in DOMAIN h[a].items }

\* a mapping with every record-type value replaced by its own converted form
RECURSIVE RecordsConverted(_, _)
RecordsConverted(h, x) ==
  IF IsData(h, x) THEN to_dict(h, x.v)
  ELSE IF IsDict(h, x)
  THEN MAP([k \in Keys(h[x.v].items) |-> RecordsConverted(h, GetItem(h[x.v].items, k))])
  ELSE x

\* a plain mapping with metadata.system.height and .size added where absent
WithDefaults(p) ==
  LET md == IF "metadata" \in DOMAIN p.m THEN p.m["metadata"].m ELSE EmptyMap
      sy == IF "system" \in DOMAIN md THEN md["system"].m ELSE EmptyMap
      sy2 == WithKeyIfAbsent(WithKeyIfAbsent(sy, "height", INT(DefaultHeight)), "size", INT(DefaultSize))
  IN MAP(WithKey(p.m, "metadata", MAP(WithKey(md, "system", MAP(sy2)))))

\* metadata and metadata.system are each either absent or plain mappings
MetadataWellFormed(h, e) ==
  LET items == h[e].items
  IN HasKey(items, "metadata") =>
       /\ IsDict(h, GetItem(items, "metadata"))
       /\ LET md == h[GetItem(items, "metadata").v].items
          IN HasKey(md, "system") => IsDict(h, GetItem(md, "system"))

DefinesHeightAndSize(h, e) ==
  LET items == h[e].items
  IN /\ HasKey(items, "metadata") /\ IsDict(h, GetItem(items, "metadata"))
     /\ LET md == h[GetItem(items, "metadata").v].items
        IN /\ HasKey(md, "system") /\ IsDict(h, GetItem(md, "system"))
           /\ {"height", "size"} \subseteq Keys(h[GetItem(md, "system").v].items)

StoreIsDict(h, self) == IsDict(h, h[self].data)
StoreOf(h, self) == h[self].data.v
StoreItems(h, self) == h[StoreOf(h, self)].items

(***************************************************************************)
(* C1: for every entries mapping e whose metadata and metadata.system are  *)
(* each absent or mappings (and whose record values convert), to_dict()    *)
(* directly after construction returns e with record values replaced by    *)
(* their converted form and height=100 / size=10 added under               *)
(* metadata.system only where absent; when e has no record values and      *)
(* already defines both, the result equals e.                              *)
(***************************************************************************)
C1_Applies ==
  /\ last.op = "construct"
  /\ MetadataWellFormed(last.pre, 1)
  /\ \A r \in RecordsIn(last.pre, 1) : to_dict(last.pre, r).t = "map"

C1_ToDictAfterConstruct ==
  C1_Applies =>
    /\ last.exc = ""
    /\ to_dict(heap, last.self) = WithDefaults(RecordsConverted(last.pre, REF(1)))
    /\ (RecordsIn(last.pre, 1) = {} /\ DefinesHeightAndSize(last.pre, 1))
         => to_dict(heap, last.self) = Snapshot(last.pre, REF(1))

\* a caller-supplied falsy height was kept and the missing size was added
C1_Witness ==
  /\ C1_Applies
  /\ last.exc = ""
  /\ ~DefinesHeightAndSize(last.pre, 1)
  /\ to_dict(heap, last.self).m["metadata"].m["system"].m["height"] = INT(0)
  /\ to_dict(heap, last.self).m["metadata"].m["system"].m["size"] = INT(DefaultSize)

(***************************************************************************)
(* The walk of the store in the words of the specification: entries in     *)
(* natural iteration order, each mapping-valued entry contributing all its *)
(* descendants' pairs first and its own (key, sub-mapping) pair after.     *)
(***************************************************************************)
RECURSIVE Walk(_, _, _)
Walk(h, a, i) ==
  IF i > Len(h[a].items) THEN <<>>
  ELSE LET e == h[a].items[i]
       IN (IF IsDict(h, e.v) THEN Walk(h, e.v.v, 1) ELSE <<>>) \o <<e>> \o Walk(h, a, i + 1)

LastValue(pairs, n, default) ==
  LET hits == {i \in DOMAIN pairs : pairs[i].k = n}
  IN IF hits = {} THEN default
     ELSE pairs[CHOOSE i \in hits : \A j \in hits : j <= i].v

\* names that normal attribute lookup resolves without the store
NormalLookup(attr) == attr = "_data" \/ attr \in ClassAttrs

(***************************************************************************)
(* C2: a read of a name n that is not underscore-prefixed resolves         *)
(* store-first, then by flattening: a top-level key yields the top-level   *)
(* value; otherwise the result is the value of the last (n, value) pair of *)
(* the walk of the whole store, or None when the walk has no pair for n.   *)
(***************************************************************************)
C2_StoreFirstThenFlatten ==
  (last.op = "get" /\ ~startswith_(last.attr)) =>
    /\ last.exc = ""
    /\ StoreIsDict(last.pre, last.self)
    /\ LET items == StoreItems(last.pre, last.self)
       IN IF HasKey(items, last.attr)
          THEN /\ last.ret = GetItem(StoreItems(heap, last.self), last.attr)
               /\ ~IsDict(last.pre, GetItem(items, last.attr))
                    => last.ret = GetItem(items, last.attr)
          ELSE last.ret = LastValue(Walk(last.pre, StoreOf(last.pre, last.self), 1),
                                    last.attr, None)

(***************************************************************************)
(* C3: for every name n other than _data and every value v, the write      *)
(* inst.n = v inserts or overwrites n in the top-level store only, leaves  *)
(* every other object unchanged, and a following read of n returns v.      *)
(***************************************************************************)
C3_WriteLandsAtTopLevel ==
  (last.op = "set" /\ last.attr # "_data") =>
    /\ last.exc = ""
    /\ StoreIsDict(last.pre, last.self)
    /\ StoreItems(heap, last.self) = SetItem(StoreItems(last.pre, last.self), last.attr, last.val)
    /\ Len(heap) = Len(last.pre)
    /\ \A a \in DOMAIN last.pre : a # StoreOf(last.pre, last.self) => heap[a] = last.pre[a]
    /\ LET r == getattr(heap, last.self, last.attr)
       IN r.exc = "" /\ Snapshot(r.h, r.ret) = Snapshot(heap, last.val)

(***************************************************************************)
(* Entries of the store by position: a path lists the entry indices from   *)
(* the store down through plain nested dicts.                              *)
(***************************************************************************)
RECURSIVE EntryPaths(_, _)
EntryPaths(h, a) ==
  UNION { {<<i>>} \cup (IF IsDict(h, h[a].items[i].v)
                        THEN {<<i>> \o p : p \in EntryPaths(h, h[a].items[i].v.v)}
                        ELSE {}) : i \in DOMAIN h[a].items }

RECURSIVE EntryAt(_, _, _)
EntryAt(h, a, p) ==
  IF Len(p) = 1 THEN h[a].items[p[1]]
  ELSE EntryAt(h, h[a].items[p[1]].v.v, Tail(p))

Occurrences(h, a, n) == {p \in EntryPaths(h, a) : EntryAt(h, a, p).k = n}

IsProperPrefix(q, p) == Len(q) < Len(p) /\ SubSeq(p, 1, Len(q)) = q

\* p's pair is produced before q's: p lies inside q's sub-mapping, or p
\* branches off into an earlier sibling
VisitedBefore(p, q) ==
  \/ IsProperPrefix(q, p)
  \/ \E i \in 1..Len(p) : /\ i <= Len(q)
                          /\ SubSeq(p, 1, i - 1) = SubSeq(q, 1, i - 1)
                          /\ p[i] < q[i]

(***************************************************************************)
(* C4: no attribute read and no attribute write raises, whatever the name  *)
(* and value; a read of a name found neither at the top level nor at any   *)
(* depth returns None.                                                     *)
(***************************************************************************)
C4_NoFault ==
  last.op \in {"get", "set"} =>
    /\ last.exc = ""
    /\ (/\ last.op = "get"
        /\ ~NormalLookup(last.attr)
        /\ Occurrences(last.pre, StoreOf(last.pre, last.self), last.attr) = {})
         => last.ret = None

(***************************************************************************)
(* C5: construction never raises, whatever the entries, and leaves a store *)
(* whose metadata is a mapping holding a mapping system that holds height  *)
(* and size.                                                               *)
(***************************************************************************)
C5_ConstructEstablishesInvariant ==
  last.op = "construct" =>
    /\ last.exc = ""
    /\ DefinesHeightAndSize(heap, StoreOf(heap, last.self))

(***************************************************************************)
(* C6: reading a top-level key whose value is a nested mapping d returns a *)
(* wrapper, the same one on every later read, and reading any name n on    *)
(* the wrapper gives what store-first-then-flatten resolution over d       *)
(* gives.                                                                  *)
(***************************************************************************)
C6_Applies ==
  /\ last.op = "get"
  /\ ~NormalLookup(last.attr)
  /\ StoreIsDict(last.pre, last.self)
  /\ HasKey(StoreItems(last.pre, last.self), last.attr)
  /\ IsDict(last.pre, GetItem(StoreItems(last.pre, last.self), last.attr))

ResolveOver(h, d, n) ==
  IF HasKey(h[d].items, n) THEN GetItem(h[d].items, n)
  ELSE LastValue(Walk(h, d, 1), n, None)

C6_WrapperMirrorsMapping ==
  C6_Applies =>
    /\ last.exc = ""
    /\ IsData(heap, last.ret)
    /\ getattr(heap, last.self, last.attr).ret = last.ret
    /\ \A n \in {x \in ReadNames : ~NormalLookup(x) /\ ~startswith_(x)} :
         LET d == GetItem(StoreItems(last.pre, last.self), last.attr).v
             r == getattr(heap, last.ret.v, n)
         IN /\ r.exc = ""
            /\ Snapshot(r.h, r.ret) = Snapshot(last.pre, ResolveOver(last.pre, d, n))

(***************************************************************************)
(* C7: lazy wrapping is not observable through lookups: after a read, the  *)
(* read of any name that is not a top-level key returns what it returned   *)
(* before that read.                                                       *)
(***************************************************************************)
C7_LazyWrappingUnobservable ==
  (last.op = "get" /\ last.exc = "" /\ StoreIsDict(last.pre, last.self)) =>
    \A n \in ReadNames :
      ~HasKey(StoreItems(last.pre, last.self), n) =>
        getattr(heap, last.self, n).ret = getattr(last.pre, last.self, n).ret

(***************************************************************************)
(* C8 as stated: when a name occurs at more than one depth of the store    *)
(* and is not a top-level key, the flattened lookup returns a deepest      *)
(* occurrence (a descendant named k wins over the sub-mapping stored under *)
(* k that encloses it).                                                    *)
(***************************************************************************)
FlattenRead ==
  /\ last.op = "get"
  /\ last.exc = ""
  /\ ~NormalLookup(last.attr)
  /\ ~startswith_(last.attr)
  /\ StoreIsDict(last.pre, last.self)
  /\ ~HasKey(StoreItems(last.pre, last.self), last.attr)

C8_DeepestWins ==
  FlattenRead =>
    LET a == StoreOf(last.pre, last.self)
        occ == Occurrences(last.pre, a, last.attr)
    IN Cardinality({Len(p) : p \in occ}) > 1 =>
         \E p \in occ : /\ \A q \in occ : Len(q) <= Len(p)
                        /\ last.ret = EntryAt(last.pre, a, p).v

(***************************************************************************)
(* C8 amended: the flattened lookup returns the occurrence the walk visits *)
(* last; a later sibling's subtree wins over an earlier one, and a         *)
(* sub-mapping stored under k wins over every descendant named k.          *)
(***************************************************************************)
C8_LastVisitedWins ==
  FlattenRead =>
    LET a == StoreOf(last.pre, last.self)
        occ == Occurrences(last.pre, a, last.attr)
    IN \A p \in occ :
         (\A q \in occ \ {p} : VisitedBefore(q, p)) => last.ret = EntryAt(last.pre, a, p).v

\* the read returned a sub-mapping that holds a descendant of the same name
C8_Witness ==
  /\ FlattenRead
  /\ LET a == StoreOf(last.pre, last.self)
         occ == Occurrences(last.pre, a, last.attr)
     IN \E p \in occ, q \in occ :
          /\ IsProperPrefix(p, q)
          /\ \A o \in occ \ {p} : VisitedBefore(o, p)
          /\ last.ret = EntryAt(last.pre, a, p).v

(***************************************************************************)
(* C9: attribute reads do not change the plain form: to_dict() of every    *)
(* instance returns the same mapping after a read as before it.            *)
(***************************************************************************)
C9_ReadsKeepPlainForm ==
  last.op = "get" =>
    \A i \in insts : i \in DOMAIN last.pre => to_dict(heap, i) = to_dict(last.pre, i)

(***************************************************************************)
(* C10: construction does not modify the caller's source mapping nor any   *)
(* mapping nested in it.                                                   *)
(***************************************************************************)
C10_SourceUntouched ==
  last.op = "construct" => Snapshot(heap, REF(1)) = Snapshot(last.pre, REF(1))
====
